---- MODULE Spec2Model ----
(***************************************************************************)
(* stack_pool<T, N>: a pool of singly linked stacks kept in one vector of  *)
(* nodes (stack_pool.hpp) and the forward iterator over one stack          *)
(* (stack_iterator.hpp).  A node is addressed by its vector index + 1;     *)
(* index 0 is end(), the empty stack and the end of every chain.           *)
(***************************************************************************)
EXTENDS Naturals, Sequences, FiniteSets

\* Bounds of the model.
MaxNodes == 3
NStacks == 2
MaxVal == 2
MaxCap == 4

Stacks == 1..NStacks
Values == 1..MaxVal

VARIABLES pool, free_nodes, heads, last, freed, contents, cap, use

vars == <<pool, free_nodes, heads, last, freed, contents, cap, use>>

----------------------------------------------------------------------------
\* stack_pool::end(): the proxy index of the end of every stack.
end == 0

\* stack_pool::psize(): the number of nodes of the vector.
psize(p) == Len(p)

\* stack_pool::empty(x).
empty(x) == (x = end)

\* AP_ERROR_IN_RANGE(x, lo, hi) of ap_error.hpp passes when lo <= x <= hi.
InRange(x, lo, hi) == lo <= x /\ x <= hi

\* node_t{v, index}.
node_t(v, index) == [value |-> v, next |-> index]

\* The outcome of the access node(x) after the range check of value(x) and
\* next(x): the check lets end() through, and node(end()) is pool[-1].
access(p, x) ==
  IF ~InRange(x, end, psize(p)) THEN "throw"
  ELSE IF x = end THEN "ub"
  ELSE "ok"

\* stack_pool::next(x), where the access is defined.
next(p, x) == p[x].next

\* stack_pool::value(x), where the access is defined.
value(p, x) == p[x].value

\* The slots of the chain of h in head-to-tail order (at most psize(p) + 1
\* steps are followed).
RECURSIVE Walk(_, _, _)
Walk(p, h, n) ==
  IF h = end \/ n = 0 \/ h > Len(p) THEN <<>>
  ELSE <<h>> \o Walk(p, next(p, h), n - 1)

Chain(p, h) == Walk(p, h, Len(p) + 1)

\* stack_pool::_new_first(s1, s2): the first node of the stack s2 becomes the
\* first node of the stack s1.  s1 and s2 are references: their new values
\* are part of the result.
_new_first_keep_s2(p, s1, s2) ==
  IF ~InRange(s1, end, psize(p)) THEN [st |-> "throw", pool |-> p, s1 |-> s1, s2 |-> s2]
  ELSE IF access(p, s2) # "ok" THEN [st |-> access(p, s2), pool |-> p, s1 |-> s1, s2 |-> s2]
  ELSE [st |-> "ok", pool |-> [p EXCEPT ![s2].next = s1], s1 |-> s2, s2 |-> s2]

_new_first_no_link(p, s1, s2) ==
  IF ~InRange(s1, end, psize(p)) THEN [st |-> "throw", pool |-> p, s1 |-> s1, s2 |-> s2]
  ELSE IF access(p, s2) # "ok" THEN [st |-> access(p, s2), pool |-> p, s1 |-> s1, s2 |-> s2]
  ELSE [st |-> "ok", pool |-> p, s1 |-> s2, s2 |-> next(p, s2)]

_new_first_late_check(p, s1, s2) ==
  IF access(p, s2) # "ok" THEN [st |-> access(p, s2), pool |-> p, s1 |-> s1, s2 |-> s2]
  ELSE IF ~InRange(s1, end, psize(p))
  THEN [st |-> "throw", pool |-> [p EXCEPT ![s2].next = s1], s1 |-> s1, s2 |-> next(p, s2)]
  ELSE [st |-> "ok", pool |-> [p EXCEPT ![s2].next = s1], s1 |-> s2, s2 |-> next(p, s2)]

_new_first(p, s1, s2) ==
  IF ~InRange(s1, end, psize(p)) THEN [st |-> "throw", pool |-> p, s1 |-> s1, s2 |-> s2]
  ELSE IF access(p, s2) # "ok" THEN [st |-> access(p, s2), pool |-> p, s1 |-> s1, s2 |-> s2]
  ELSE [st |-> "ok", pool |-> [p EXCEPT ![s2].next = s1], s1 |-> s2, s2 |-> next(p, s2)]

\* stack_pool::_push(val, head), reached through both push overloads.
_push_ret_old_size(p, f, val, head) ==
  IF empty(f)
  THEN [st |-> "ok", pool |-> Append(p, node_t(val, head)), free |-> f,
        ret |-> psize(p)]
  ELSE LET nf == _new_first(p, head, f) IN
       IF nf.st # "ok"
       THEN [st |-> nf.st, pool |-> p, free |-> f, ret |-> end]
       ELSE [st |-> "ok", pool |-> [nf.pool EXCEPT ![nf.s1].value = val],
             free |-> nf.s2, ret |-> nf.s1]

_push_always_append(p, f, val, head) ==
  [st |-> "ok", pool |-> Append(p, node_t(val, head)), free |-> f,
   ret |-> psize(p) + 1]

_push_keep_value(p, f, val, head) ==
  IF empty(f)
  THEN [st |-> "ok", pool |-> Append(p, node_t(val, head)), free |-> f,
        ret |-> psize(p) + 1]
  ELSE LET nf == _new_first(p, head, f) IN
       IF nf.st # "ok"
       THEN [st |-> nf.st, pool |-> p, free |-> f, ret |-> end]
       ELSE [st |-> "ok", pool |-> nf.pool, free |-> nf.s2, ret |-> nf.s1]

_push(p, f, val, head) ==
  IF empty(f)
  THEN [st |-> "ok", pool |-> Append(p, node_t(val, head)), free |-> f,
        ret |-> psize(p) + 1]
  ELSE LET nf == _new_first(p, head, f) IN
       IF nf.st # "ok"
       THEN [st |-> nf.st, pool |-> nf.pool, free |-> nf.s2, ret |-> end]
       ELSE [st |-> "ok", pool |-> [nf.pool EXCEPT ![nf.s1].value = val],
             free |-> nf.s2, ret |-> nf.s1]

\* stack_pool::pop(x): x is passed by value and handed to _new_first by
\* reference, so the returned x is the one _new_first left.
pop_append(p, f, x) ==
  IF empty(f) \/ access(p, x) # "ok" THEN
    LET nf == _new_first(p, f, x) IN
    [st |-> nf.st, pool |-> nf.pool, free |-> nf.s1, ret |-> nf.s2]
  ELSE
    [st |-> "ok",
     pool |-> [p EXCEPT ![Chain(p, f)[Len(Chain(p, f))]].next = x, ![x].next = end],
     free |-> f, ret |-> next(p, x)]

pop_ret_x(p, f, x) ==
  LET nf == _new_first(p, f, x) IN
  [st |-> nf.st, pool |-> nf.pool, free |-> nf.s1, ret |-> x]

pop(p, f, x) ==
  LET nf == _new_first(p, f, x) IN
  [st |-> nf.st, pool |-> nf.pool, free |-> nf.s1, ret |-> nf.s2]

\* stack_pool::_last_jump(x): the index of the last node of the chain of x,
\* 0 when the walk never ends (the chain has a cycle).
RECURSIVE last_node(_, _, _)
last_node(p, x, seen) ==
  IF x \in seen \/ x > psize(p) THEN 0
  ELSE IF empty(next(p, x)) THEN x
  ELSE last_node(p, next(p, x), seen \cup {x})

_last_jump(p, x) == last_node(p, x, {})

\* How a walk of _last_jump(x) that does not return ends: it loops for ever
\* on a cycle ("hang"), or next() throws inside the noexcept function on an
\* index beyond the pool and the program is terminated ("abort").
RECURSIVE no_return(_, _, _)
no_return(p, x, seen) ==
  IF x \in seen THEN "hang"
  ELSE IF x > psize(p) THEN "abort"
  ELSE no_return(p, next(p, x), seen \cup {x})

\* stack_pool::free_stack(x).
free_stack_drop(p, f, x) ==
  IF ~InRange(x, end, psize(p))
  THEN [st |-> "throw", pool |-> p, free |-> f, ret |-> end]
  ELSE [st |-> "ok", pool |-> p, free |-> x, ret |-> end]

free_stack_prepend(p, f, x) ==
  IF ~InRange(x, end, psize(p))
  THEN [st |-> "throw", pool |-> p, free |-> f, ret |-> end]
  ELSE IF ~empty(x)
  THEN [st |-> "ok", pool |-> [p EXCEPT ![_last_jump(p, x)].next = f],
        free |-> x, ret |-> end]
  ELSE [st |-> "ok", pool |-> p, free |-> f, ret |-> end]

free_stack(p, f, x) ==
  IF ~InRange(x, end, psize(p))
  THEN [st |-> "throw", pool |-> p, free |-> f, ret |-> end]
  ELSE IF ~empty(f)
  THEN IF _last_jump(p, f) = 0
       THEN [st |-> no_return(p, f, {}), pool |-> p, free |-> f, ret |-> end]
       ELSE [st |-> "ok", pool |-> [p EXCEPT ![_last_jump(p, f)].next = x],
             free |-> f, ret |-> end]
  ELSE [st |-> "ok", pool |-> p, free |-> x, ret |-> end]

\* stack_pool::ssize(x): the steps of the iterator from cbegin(x) to cend(x).
\* The result is [st, n]; st is "hang" when the iterator never reaches end().
RECURSIVE count(_, _, _)
count(p, x, seen) ==
  IF x = end THEN [st |-> "ok", n |-> 0]
  ELSE IF x \in seen THEN [st |-> "hang", n |-> 0]
  ELSE IF access(p, x) # "ok" THEN [st |-> access(p, x), n |-> 0]
  ELSE LET r == count(p, next(p, x), seen \cup {x}) IN
       [st |-> r.st, n |-> IF r.st = "ok" THEN r.n + 1 ELSE 0]

ssize_from_one(p, x) ==
  IF ~InRange(x, end, psize(p)) THEN [st |-> "throw", n |-> 0]
  ELSE [st |-> count(p, x, {}).st, n |-> count(p, x, {}).n + 1]

ssize(p, x) ==
  IF ~InRange(x, end, psize(p)) THEN [st |-> "throw", n |-> 0]
  ELSE count(p, x, {})

\* _stack_iterator(x, my_pool): the constructor checks x against
\* [end(), psize()] after storing it.
_stack_iterator_strict(p, x) ==
  [st |-> IF x # end /\ InRange(x, end, psize(p)) THEN "ok" ELSE "throw", index |-> x]

_stack_iterator(p, x) ==
  [st |-> IF InRange(x, end, psize(p)) THEN "ok" ELSE "throw", index |-> x]

\* stack_pool::begin(x) and cbegin(x).
begin(p, x) == _stack_iterator(p, x)

\* stack_pool::end(x) and cend(x): the argument is not used.
cend(p, x) == _stack_iterator(p, end)

\* stack_pool::print_stack(x): the values *it of the loop from cbegin(x) to
\* cend(x), in the order they are visited.
RECURSIVE visit(_, _, _)
visit(p, x, seen) ==
  IF x = end THEN [st |-> "ok", vals |-> <<>>]
  ELSE IF x \in seen THEN [st |-> "hang", vals |-> <<>>]
  ELSE IF access(p, x) # "ok" THEN [st |-> access(p, x), vals |-> <<>>]
  ELSE LET r == visit(p, next(p, x), seen \cup {x}) IN
       [st |-> r.st, vals |-> IF r.st = "ok" THEN <<value(p, x)>> \o r.vals ELSE <<>>]

print_stack(p, x) ==
  IF begin(p, x).st # "ok" THEN [st |-> "throw", vals |-> <<>>]
  ELSE visit(p, x, {})

\* stack_pool::reach(x, m), both overloads: the range check of m against
\* ssize(x), m - 1 steps of next, then value.
RECURSIVE advance(_, _, _)
advance(p, x, k) ==
  IF k = 0 THEN [st |-> access(p, x), v |-> IF access(p, x) = "ok" THEN value(p, x) ELSE 0]
  ELSE IF access(p, x) # "ok" THEN [st |-> access(p, x), v |-> 0]
  ELSE advance(p, next(p, x), k - 1)

reach_from_zero(p, x, m) ==
  LET sz == ssize(p, x) IN
  IF sz.st # "ok" THEN [st |-> sz.st, v |-> 0]
  ELSE IF ~InRange(m, end, sz.n) THEN [st |-> "throw", v |-> 0]
  ELSE advance(p, x, m)

reach(p, x, m) ==
  LET sz == ssize(p, x) IN
  IF sz.st # "ok" THEN [st |-> sz.st, v |-> 0]
  ELSE IF ~InRange(m, end, sz.n) THEN [st |-> "throw", v |-> 0]
  ELSE advance(p, x, IF m = 0 THEN 0 ELSE m - 1)

\* _stack_iterator::operator*() of an iterator at index.
operator_star(p, index) ==
  [st |-> access(p, index), v |-> IF access(p, index) = "ok" THEN value(p, index) ELSE 0]

\* _stack_iterator::operator++() of an iterator at index.
operator_incr(p, index) ==
  [st |-> access(p, index),
   index |-> IF access(p, index) = "ok" THEN next(p, index) ELSE index]

\* pool.push_back on a full vector: the capacity after the reallocation
\* (the vector doubles, from 0 to 1).
grow_keep(c) == c

grow(c) == IF c = 0 THEN 1 ELSE 2 * c

\* pool.reserve(n): the capacity after the call.
reserve_exact(c, n) == n

reserve(c, n) == IF n > c THEN n ELSE c

----------------------------------------------------------------------------
\* The caller: NStacks stack variables, each holding the head of its stack
\* and assigned the result of every call made on it (s = pool.push(v, s),
\* s = pool.pop(s), s = pool.free_stack(s)).

NoRelease == [open |-> FALSE, slots |-> <<>>, popen |-> FALSE, pops |-> <<>>]

\* last: the last call made, with its outcome (st) and the pool it was made
\* on.  A call that throws leaves the caller's variable as it was.
NoCall == [op |-> "none", st |-> "ok", s |-> 0, x |-> 0, val |-> 0, ret |-> 0,
           pool |-> <<>>, free |-> 0, freed |-> NoRelease]

\* freed: the caller's record of the slots it released.  slots: the slots
\* released since the last run of releases began, most recent first, each
\* with the operation that released it; a push closes the run (open) and
\* takes the slot it reuses out.  pops, popen: the same for the slots released
\* by pop alone.
FreedBy(op, p, x) ==
  IF op = "pop" THEN <<[slot |-> x, by |-> "pop"]>>
  ELSE LET c == Chain(p, x) IN
       [i \in 1..Len(c) |->
          [slot |-> c[Len(c) + 1 - i],
           by |-> IF Len(c) = 1 THEN "free1" ELSE "freeN"]]

Without(q, h) == SelectSeq(q, LAMBDA e : e.slot # h)

\* contents: for every caller variable, the values pushed on its stack and
\* not popped since, the most recent first.  cap: pool.capacity().  use: how
\* far the calls made so far went beyond calls on the current heads.
Init ==
  /\ pool = <<>>
  /\ free_nodes = end
  /\ heads = [s \in Stacks |-> end]
  /\ last = NoCall
  /\ freed = NoRelease
  /\ contents = [s \in Stacks |-> <<>>]
  /\ cap = 0
  /\ use = "heads"

\* s = pool.push(v, s); t: the caller keeps its record of released slots
Push(s, v, t) ==
  /\ ~empty(free_nodes) \/ psize(pool) < MaxNodes
  /\ LET r == _push(pool, free_nodes, v, heads[s]) IN
     /\ r.st \in {"ok", "throw"}
     /\ pool' = r.pool
     /\ free_nodes' = r.free
     /\ heads' = IF r.st = "ok" THEN [heads EXCEPT ![s] = r.ret] ELSE heads
     /\ last' = [op |-> "push", st |-> r.st, s |-> s, x |-> heads[s], val |-> v, ret |-> r.ret,
                 pool |-> pool, free |-> free_nodes, freed |-> freed]
     /\ freed' = IF ~t \/ r.st # "ok" THEN freed
                 ELSE [open |-> FALSE, slots |-> Without(freed.slots, r.ret),
                       popen |-> FALSE, pops |-> Without(freed.pops, r.ret)]
     /\ contents' = IF r.st = "ok" THEN [contents EXCEPT ![s] = <<v>> \o @]
                    ELSE contents
     /\ cap' = IF psize(r.pool) > cap THEN grow(cap) ELSE cap
     /\ UNCHANGED use

\* s = pool.pop(s), on a stack that has a first node
Pop(s, t) ==
  /\ ~empty(heads[s])
  /\ LET r == pop(pool, free_nodes, heads[s]) IN
     /\ r.st \in {"ok", "throw"}
     /\ pool' = r.pool
     /\ free_nodes' = r.free
     /\ heads' = IF r.st = "ok" THEN [heads EXCEPT ![s] = r.ret] ELSE heads
     /\ last' = [op |-> "pop", st |-> r.st, s |-> s, x |-> heads[s], val |-> 0, ret |-> r.ret,
                 pool |-> pool, free |-> free_nodes, freed |-> freed]
     /\ freed' = IF ~t \/ r.st # "ok" THEN freed
                 ELSE [open |-> TRUE,
                       slots |-> FreedBy("pop", pool, heads[s])
                                 \o (IF freed.open THEN freed.slots ELSE <<>>),
                       popen |-> TRUE,
                       pops |-> FreedBy("pop", pool, heads[s])
                                \o (IF freed.popen THEN freed.pops ELSE <<>>)]
     /\ contents' = IF r.st = "ok" THEN [contents EXCEPT ![s] = Tail(@)]
                    ELSE contents
     /\ UNCHANGED <<cap, use>>

\* s = pool.free_stack(s)
FreeStack(s, t) ==
  LET r == free_stack(pool, free_nodes, heads[s]) IN
  /\ r.st \in {"ok", "throw"}
  /\ pool' = r.pool
  /\ free_nodes' = r.free
  /\ heads' = IF r.st = "ok" THEN [heads EXCEPT ![s] = r.ret] ELSE heads
  /\ last' = [op |-> "free_stack", st |-> r.st, s |-> s, x |-> heads[s], val |-> 0, ret |-> r.ret,
              pool |-> pool, free |-> free_nodes, freed |-> freed]
  /\ freed' = IF ~t \/ r.st # "ok" \/ empty(heads[s]) THEN freed
              ELSE [freed EXCEPT
                      !.open = TRUE,
                      !.slots = FreedBy("free_stack", pool, heads[s])
                                \o (IF freed.open THEN freed.slots ELSE <<>>)]
  /\ contents' = IF r.st = "ok" THEN [contents EXCEPT ![s] = <<>>] ELSE contents
  /\ UNCHANGED <<cap, use>>

Next ==
  \/ \E s \in Stacks, v \in Values : Push(s, v, FALSE)
  \/ \E s \in Stacks : Pop(s, FALSE)
  \/ \E s \in Stacks : FreeStack(s, FALSE)

Spec == Init /\ [][Next]_vars

\* The same caller keeping its record of released slots.  The order in which
\* slots are reused does not depend on the values pushed: one value is pushed.
NextLifo ==
  \/ \E s \in Stacks : Push(s, 1, TRUE)
  \/ \E s \in Stacks : Pop(s, TRUE)
  \/ \E s \in Stacks : FreeStack(s, TRUE)

SpecLifo == Init /\ [][NextLifo]_vars

\* The same three calls of a caller that keeps no record of the call it made
\* and none of the slots it released.
CallPush(s, v) ==
  /\ ~empty(free_nodes) \/ psize(pool) < MaxNodes
  /\ LET r == _push(pool, free_nodes, v, heads[s]) IN
     /\ r.st \in {"ok", "throw"}
     /\ pool' = r.pool
     /\ free_nodes' = r.free
     /\ heads' = IF r.st = "ok" THEN [heads EXCEPT ![s] = r.ret] ELSE heads
     /\ contents' = IF r.st = "ok" THEN [contents EXCEPT ![s] = <<v>> \o @]
                    ELSE contents
     /\ cap' = IF psize(r.pool) > cap THEN grow(cap) ELSE cap
     /\ last' = NoCall
     /\ UNCHANGED <<freed, use>>

CallPop(s) ==
  /\ ~empty(heads[s])
  /\ LET r == pop(pool, free_nodes, heads[s]) IN
     /\ r.st \in {"ok", "throw"}
     /\ pool' = r.pool
     /\ free_nodes' = r.free
     /\ heads' = IF r.st = "ok" THEN [heads EXCEPT ![s] = r.ret] ELSE heads
     /\ contents' = IF r.st = "ok" THEN [contents EXCEPT ![s] = Tail(@)]
                    ELSE contents
     /\ last' = NoCall
     /\ UNCHANGED <<freed, cap, use>>

CallFreeStack(s) ==
  LET r == free_stack(pool, free_nodes, heads[s]) IN
  /\ r.st \in {"ok", "throw"}
  /\ pool' = r.pool
  /\ free_nodes' = r.free
  /\ heads' = IF r.st = "ok" THEN [heads EXCEPT ![s] = r.ret] ELSE heads
  /\ contents' = IF r.st = "ok" THEN [contents EXCEPT ![s] = <<>>] ELSE contents
  /\ last' = NoCall
  /\ UNCHANGED <<freed, cap, use>>

\* The read-only calls on a handle x: value(x), next(x), *it and ++it of an
\* iterator at x, begin(x), end(x), empty(x), ssize(x), print_stack(x) and
\* reach(x, m) for every m up to psize() + 1.
Query(x) ==
  /\ last' = [op |-> "query", x |-> x,
              res |-> [value |-> operator_star(pool, x).st,
                       next |-> operator_incr(pool, x).st,
                       star |-> operator_star(pool, x),
                       incr |-> operator_incr(pool, x),
                       begin |-> begin(pool, x),
                       cend |-> cend(pool, x),
                       empty |-> empty(x),
                       ssize |-> ssize(pool, x),
                       print |-> print_stack(pool, x),
                       reach |-> [m \in 0..psize(pool) + 1 |-> reach(pool, x, m)]]]
  /\ UNCHANGED <<pool, free_nodes, heads, freed, contents, cap, use>>

NextRead ==
  \/ \E s \in Stacks, v \in Values : CallPush(s, v)
  \/ \E s \in Stacks : CallPop(s)
  \/ \E s \in Stacks : CallFreeStack(s)
  \/ \E x \in 0..psize(pool) + 1 : Query(x)

SpecRead == Init /\ [][NextRead]_vars

\* pool.reserve(n)
Reserve(n) ==
  /\ cap' = reserve(cap, n)
  /\ last' = NoCall
  /\ UNCHANGED <<pool, free_nodes, heads, freed, contents, use>>

\* The caller's calls with reserve among them.  Sizes and capacities do not
\* depend on the values pushed: one value is pushed.
NextCap ==
  \/ \E s \in Stacks : CallPush(s, 1)
  \/ \E s \in Stacks : CallPop(s)
  \/ \E s \in Stacks : CallFreeStack(s)
  \/ \E n \in 0..MaxCap : Reserve(n)

SpecCap == Init /\ [][NextCap]_vars

\* s = pool.push(v, s); s = pool.pop(s); in a row.  A push that throws is
\* not followed by the pop.
PushPop(s, v) ==
  /\ ~empty(free_nodes) \/ psize(pool) < MaxNodes
  /\ LET r1 == _push(pool, free_nodes, v, heads[s])
         r2 == IF r1.st = "ok" THEN pop(r1.pool, r1.free, r1.ret)
               ELSE [st |-> r1.st, pool |-> r1.pool, free |-> r1.free, ret |-> heads[s]]
     IN
     /\ r2.st \in {"ok", "throw"}
     /\ pool' = r2.pool
     /\ free_nodes' = r2.free
     /\ heads' = IF r2.st = "ok" THEN [heads EXCEPT ![s] = r2.ret]
                 ELSE IF r1.st = "ok" THEN [heads EXCEPT ![s] = r1.ret]
                 ELSE heads
     /\ contents' = IF r1.st = "ok" /\ r2.st # "ok"
                    THEN [contents EXCEPT ![s] = <<v>> \o @]
                    ELSE contents
     /\ cap' = IF psize(r1.pool) > cap THEN grow(cap) ELSE cap
     /\ last' = [op |-> "push_pop", s |-> s]
     /\ UNCHANGED <<freed, use>>

\* The stacks are built with one value; the round trip pushes any value, so
\* that a value written to a node of the chain shows.
NextRound ==
  \/ \E s \in Stacks : CallPush(s, 1)
  \/ \E s \in Stacks : CallPop(s)
  \/ \E s \in Stacks : CallFreeStack(s)
  \/ \E s \in Stacks, v \in Values : PushPop(s, v)

SpecRound == Init /\ [][NextRound]_vars

\* A caller that passes any handle, a current head or not, and drops what the
\* call returns.  x is a current head when it is end() or a node that is not
\* free and that no node links to; pop needs a head with a first node.
IsHead(p, f, x) ==
  \/ x = end
  \/ /\ x \in 1..psize(p)
     /\ \A i \in 1..Len(Chain(p, f)) : Chain(p, f)[i] # x
     /\ \A y \in 1..psize(p) : next(p, y) # x

UseOf(op, x) ==
  IF x > psize(pool) THEN "beyond"
  ELSE IF IsHead(pool, free_nodes, x) /\ (op = "pop" => x # end) THEN "heads"
  ELSE "any"

Worse(a, b) ==
  IF "beyond" \in {a, b} THEN "beyond"
  ELSE IF "any" \in {a, b} THEN "any"
  ELSE "heads"

\* The last call did not return: it loops for ever.
Hung(l) ==
  IF l.op = "query"
  THEN \/ l.res.ssize.st = "hang"
       \/ l.res.print.st = "hang"
       \/ \E m \in DOMAIN l.res.reach : l.res.reach[m].st = "hang"
  ELSE l.st = "hang"

\* The program is still running after the last call.
Running == ~Hung(last) /\ (last.op # "query" => last.st \in {"ok", "throw", "ub"})

AnyPush(x) ==
  /\ Running
  /\ ~empty(free_nodes) \/ psize(pool) < MaxNodes
  /\ LET r == _push(pool, free_nodes, 1, x) IN
     /\ pool' = r.pool
     /\ free_nodes' = r.free
     /\ last' = [op |-> "push", st |-> r.st, s |-> 0, x |-> x, val |-> 1, ret |-> r.ret,
                 pool |-> pool, free |-> free_nodes, freed |-> freed]
     /\ cap' = IF psize(r.pool) > cap THEN grow(cap) ELSE cap
     /\ use' = Worse(use, UseOf("push", x))
     /\ UNCHANGED <<heads, freed, contents>>

\* pop(0) reads and writes pool[-1]: the program crashes, or it goes on with
\* free_nodes set to 0 (s1 = tmp) and the pool as it was.
AnyPop(x) ==
  /\ Running
  /\ LET r == pop(pool, free_nodes, x) IN
     \E o \in (IF r.st = "ub" THEN {"ub", "crash"} ELSE {r.st}) :
       /\ pool' = r.pool
       /\ free_nodes' = IF o = "ub" THEN end ELSE r.free
       /\ last' = [op |-> "pop", st |-> o, s |-> 0, x |-> x, val |-> 0, ret |-> r.ret,
                   pool |-> pool, free |-> free_nodes, freed |-> freed]
       /\ use' = Worse(use, UseOf("pop", x))
       /\ UNCHANGED <<heads, freed, contents, cap>>

AnyFreeStack(x) ==
  /\ Running
  /\ LET r == free_stack(pool, free_nodes, x) IN
     /\ pool' = r.pool
     /\ free_nodes' = r.free
     /\ last' = [op |-> "free_stack", st |-> r.st, s |-> 0, x |-> x, val |-> 0, ret |-> r.ret,
                 pool |-> pool, free |-> free_nodes, freed |-> freed]
     /\ use' = Worse(use, UseOf("free_stack", x))
     /\ UNCHANGED <<heads, freed, contents, cap>>

NextAny ==
  \/ \E x \in 0..psize(pool) + 1 : AnyPush(x)
  \/ \E x \in 0..psize(pool) + 1 : AnyPop(x)
  \/ \E x \in 0..psize(pool) + 1 : AnyFreeStack(x)
  \/ \E x \in 0..psize(pool) : Running /\ Query(x)

SpecAny == Init /\ [][NextAny]_vars

\* The end-to-end run on an empty pool: three pushes on one stack, pop,
\* free_stack, and a push on the then empty stack.  The values pushed are
\* any of those of the run (10, 20, 30 and 99).
ScenValues == {10, 20, 30, 99}

ScenBuild(v) ==
  /\ last.op \in {"none", "push"}
  /\ empty(free_nodes)
  /\ psize(pool) < 3
  /\ Push(1, v, FALSE)

ScenPop ==
  /\ last.op = "push"
  /\ empty(free_nodes)
  /\ psize(pool) = 3
  /\ Pop(1, FALSE)

ScenFree ==
  /\ last.op = "pop"
  /\ FreeStack(1, FALSE)

ScenReuse(v) ==
  /\ last.op = "free_stack"
  /\ Push(1, v, FALSE)

NextScenario ==
  \/ \E v \in ScenValues : ScenBuild(v)
  \/ ScenPop
  \/ ScenFree
  \/ \E v \in ScenValues : ScenReuse(v)

SpecScenario == Init /\ [][NextScenario]_vars

----------------------------------------------------------------------------
\* Every call this caller can make returns: none throws, reads pool[-1] or
\* walks a chain for ever.
CallsReturn ==
  /\ last.st = "ok"
  /\ \A s \in Stacks, v \in Values :
        /\ _push(pool, free_nodes, v, heads[s]).st = "ok"
        /\ ~empty(heads[s]) => pop(pool, free_nodes, heads[s]).st = "ok"
        /\ free_stack(pool, free_nodes, heads[s]).st = "ok"

\* The chains of the pool: the stack of every caller variable and free_nodes.
Roots == [c \in 0..NStacks |-> IF c = 0 THEN free_nodes ELSE heads[c]]

InChain(i, h) == \E k \in 1..Len(Chain(pool, h)) : Chain(pool, h)[k] = i

RECURSIVE TotalLen(_)
TotalLen(c) ==
  Len(Chain(pool, Roots[c])) + (IF c = 0 THEN 0 ELSE TotalLen(c - 1))

NoRepeat(q) == \A i, j \in 1..Len(q) : q[i] = q[j] => i = j

\* C1: every handle in 1..size() lies in exactly one chain (one user stack or
\* the free list), and the lengths of all chains add up to size().
C1_ExactlyOneChain ==
  /\ \A i \in 1..psize(pool) :
        Cardinality({c \in 0..NStacks : InChain(i, Roots[c])}) = 1
  /\ TotalLen(NStacks) = psize(pool)

C1_Witness ==
  /\ psize(pool) >= 3
  /\ last.op = "free_stack"
  /\ last.x # end
  /\ last.free # end
  /\ \E c \in 1..NStacks : Roots[c] # end

\* C2: every chain is a simple path that ends at 0, no handle is the next of
\* two different nodes, and no chain starts inside another chain.
C2_SimplePaths ==
  /\ \A c \in 0..NStacks :
        LET ch == Chain(pool, Roots[c]) IN
        /\ NoRepeat(ch)
        /\ Roots[c] <= psize(pool)
        /\ ch # <<>> => next(pool, ch[Len(ch)]) = end
  /\ \A i, j \in 1..psize(pool) :
        (i # j /\ next(pool, i) # end) => next(pool, i) # next(pool, j)
  /\ \A c \in 0..NStacks, i \in 1..psize(pool) :
        Roots[c] # end => next(pool, i) # Roots[c]
  /\ \A c, d \in 0..NStacks : (c # d /\ Roots[c] # end) => Roots[c] # Roots[d]

C2_Witness ==
  /\ psize(pool) >= 3
  /\ \E c \in 1..NStacks : Len(Chain(pool, Roots[c])) >= 2
  /\ free_nodes # end
  /\ last.op = "pop"

\* C3 as stated: pop returns the handle it was given.
C3_ReturnsGivenHandle ==
  last.op = "pop" => last.ret = last.x

\* C3 amended: pop does not return the handle it was given (the recycled
\* node, which is the new free_nodes); it returns the value next(head) had
\* before the call.
C3_ReturnsOldNext ==
  last.op = "pop" =>
    /\ last.ret # last.x
    /\ last.ret = next(last.pool, last.x)
    /\ free_nodes = last.x

C3_Witness ==
  /\ last.op = "pop"
  /\ last.ret # end
  /\ last.free # end

\* C4: pop returns the new head of the stack: the rest of the chain of head
\* after its first node, 0 when the stack had one node.
C4_ReturnsNewHead ==
  last.op = "pop" =>
    /\ Chain(pool, last.ret) = Tail(Chain(last.pool, last.x))
    /\ Len(Chain(last.pool, last.x)) = 1 => last.ret = end
    /\ Len(Chain(last.pool, last.x)) > 1 => last.ret = Chain(last.pool, last.x)[2]

C4_Witness ==
  /\ last.op = "pop"
  /\ Len(Chain(last.pool, last.x)) >= 2
  /\ Len(Chain(pool, last.ret)) = Len(Chain(last.pool, last.x)) - 1

C4_WitnessOneNode ==
  /\ last.op = "pop"
  /\ Len(Chain(last.pool, last.x)) = 1
  /\ last.ret = end

\* C5: after pop(head) the popped node is the head of the free list, in front
\* of the former free list; size() and every other node are unchanged.
C5_PopPrepends ==
  last.op = "pop" =>
    /\ free_nodes = last.x
    /\ next(pool, last.x) = last.free
    /\ psize(pool) = psize(last.pool)
    /\ \A i \in 1..psize(pool) : i # last.x => pool[i] = last.pool[i]

C5_Witness ==
  /\ last.op = "pop"
  /\ last.free # end
  /\ next(last.pool, last.x) # last.free
  /\ Chain(pool, free_nodes) = <<last.x>> \o Chain(last.pool, last.free)

\* C6: with an empty free list, push(val, head) appends the one node
\* {val, head}, returns the size after the append, leaves the free list empty
\* and changes no existing node.
C6_PushAppends ==
  (last.op = "push" /\ last.free = end) =>
    /\ pool = Append(last.pool, node_t(last.val, last.x))
    /\ psize(pool) = psize(last.pool) + 1
    /\ last.ret = psize(pool)
    /\ free_nodes = end
    /\ \A i \in 1..psize(last.pool) : pool[i] = last.pool[i]

C6_Witness ==
  /\ last.op = "push"
  /\ last.free = end
  /\ last.x # end
  /\ psize(last.pool) >= 2

\* C7: with a non-empty free list, push(val, head) does not grow the arena:
\* it returns the former free_nodes, writes val and head into that node and
\* makes the node's former next the new free_nodes; the arena grows only on a
\* push made with an empty free list.
C7_PushRecycles ==
  /\ (last.op = "push" /\ last.free # end) =>
        /\ last.ret = last.free
        /\ psize(pool) = psize(last.pool)
        /\ pool[last.ret] = node_t(last.val, last.x)
        /\ free_nodes = next(last.pool, last.free)
  /\ psize(pool) # psize(last.pool) => (last.op = "push" /\ last.free = end)

C7_Witness ==
  /\ last.op = "push"
  /\ last.free # end
  /\ next(last.pool, last.free) # end
  /\ last.x # end
  /\ last.pool[last.free] # node_t(last.val, last.x)

\* C8: h' = push(v, h) gives value(h') = v, next(h') = h and
\* ssize(h') = ssize(h) + 1, on the append path and on the recycle path.
C8_PushedHead ==
  last.op = "push" =>
    /\ access(pool, last.ret) = "ok"
    /\ value(pool, last.ret) = last.val
    /\ next(pool, last.ret) = last.x
    /\ ssize(last.pool, last.x).st = "ok"
    /\ ssize(pool, last.ret).st = "ok"
    /\ ssize(pool, last.ret).n = ssize(last.pool, last.x).n + 1

C8_Witness ==
  /\ last.op = "push"
  /\ last.free # end
  /\ ssize(pool, last.ret).n = 2
  /\ value(last.pool, last.ret) # last.val

C8_WitnessAppend ==
  /\ last.op = "push"
  /\ last.free = end
  /\ ssize(pool, last.ret).n = 3

\* C9 as stated: a push made after a run of releases (by pop or by free_stack
\* of a one-node stack) reuses the most recently released slot left.
C9_LifoAllReleases ==
  (last.op = "push" /\ last.freed.slots # <<>>
     /\ Head(last.freed.slots).by # "freeN") =>
    last.ret = Head(last.freed.slots).slot

\* C9 amended: recycling is LIFO over pop: when slot A is released by pop and
\* then slot B is released by pop, with no push in between, the next two
\* pushes reuse B and then A.
C9_LifoPops ==
  (last.op = "push" /\ last.freed.pops # <<>>) =>
    last.ret = Head(last.freed.pops).slot

\* the second of the two pushes that follow two pops
C9_Witness ==
  /\ last.op = "push"
  /\ last.freed.pops # <<>>
  /\ ~last.freed.popen
  /\ last.ret = Head(last.freed.pops).slot
  /\ freed.pops = <<>>

\* C10: free_stack(head) returns 0 and changes at most one link: free_nodes
\* when the free list is empty, else the next of the last node of the free
\* list; the new free list is the old one followed by the chain of head.
C10_FreeStackAppends ==
  last.op = "free_stack" =>
    LET old == Chain(last.pool, last.free) IN
    /\ last.ret = end
    /\ last.free = end => (free_nodes = last.x /\ pool = last.pool)
    /\ last.free # end =>
          /\ free_nodes = last.free
          /\ pool = [last.pool EXCEPT ![old[Len(old)]].next = last.x]
    /\ Chain(pool, free_nodes) = old \o Chain(last.pool, last.x)

C10_Witness ==
  /\ last.op = "free_stack"
  /\ Len(Chain(last.pool, last.free)) >= 1
  /\ Len(Chain(last.pool, last.x)) >= 2
  /\ Len(Chain(pool, free_nodes)) >= 3

\* C11 as stated: in the end-to-end run the push that follows free_stack
\* returns one of the two slots released by free_stack (h1 = 1 or h2 = 2).
C11_ReusesFreedByFreeStack ==
  (last.op = "push" /\ last.free # end) => last.ret \in {1, 2}

\* C11 amended: after the three pushes ssize is 3, the traversal gives the
\* values in reverse push order and next(h3) = h2; pop(h3) leaves h2 as head;
\* free_stack(h2) returns 0 and leaves the free list h3, h2, h1; the push
\* that follows returns h3, the slot released by pop.
C11_Scenario ==
  /\ (last.op = "push" /\ last.free = end /\ psize(pool) = 3) =>
        /\ heads[1] = 3
        /\ ssize(pool, 3) = [st |-> "ok", n |-> 3]
        /\ print_stack(pool, 3).st = "ok"
        /\ print_stack(pool, 3).vals = contents[1]
        /\ print_stack(pool, 3).vals = <<value(pool, 3), value(pool, 2), value(pool, 1)>>
        /\ next(pool, 3) = 2
  /\ last.op = "pop" =>
        /\ last.x = 3
        /\ heads[1] = 2
        /\ heads[1] = next(last.pool, 3)
  /\ last.op = "free_stack" =>
        /\ last.x = 2
        /\ last.ret = end
        /\ Chain(pool, free_nodes) = <<3, 2, 1>>
  /\ (last.op = "push" /\ last.free # end) =>
        /\ last.x = end
        /\ last.ret = 3
        /\ Chain(pool, free_nodes) = <<2, 1>>

C11_Witness ==
  /\ last.op = "push"
  /\ last.free # end
  /\ last.val = 99
  /\ last.ret = 3
  /\ value(last.pool, 1) = 10 /\ value(last.pool, 2) = 20 /\ value(last.pool, 3) = 30

\* C12: value(h) and next(h), and so *it and ++it of an iterator at h, fail
\* with an out-of-range error for every h outside 1..size(), 0 included.
C12_OutsideFails ==
  (last.op = "query" /\ last.x \notin 1..psize(pool)) =>
    /\ last.res.value = "throw"
    /\ last.res.next = "throw"
    /\ last.res.star.st = "throw"
    /\ last.res.incr.st = "throw"

\* C13: begin(x) and cbegin(x) succeed for x = 0 and for x in 1..size() and
\* fail for x > size(); end() and cend() never fail.
C13_CursorConstruction ==
  last.op = "query" =>
    /\ last.x <= psize(pool) => last.res.begin = [st |-> "ok", index |-> last.x]
    /\ last.x > psize(pool) => last.res.begin.st = "throw"
    /\ last.res.cend = [st |-> "ok", index |-> end]

C13_Witness ==
  /\ last.op = "query"
  /\ psize(pool) >= 2
  /\ last.x > psize(pool)
  /\ last.res.begin.st = "throw"
  /\ last.res.cend.st = "ok"

C13_WitnessEnd ==
  /\ last.op = "query"
  /\ psize(pool) >= 2
  /\ last.x = end
  /\ last.res.begin.st = "ok"

\* C15: for a head x and 1 <= m <= ssize(x), reach(x, m) is the value of the
\* m-th node of the traversal from x; reach(x, 0) is reach(x, 1) on a stack
\* that has a first node; reach(x, m) fails for every m > ssize(x).
C15_Reach ==
  (last.op = "query" /\ \E s \in Stacks : last.x = heads[s]) =>
    LET n == Len(Chain(pool, last.x)) IN
    /\ \A m \in 1..n :
          last.res.reach[m] = [st |-> "ok", v |-> last.res.print.vals[m]]
    /\ \A m \in 1..n :
          last.res.reach[m].v = value(pool, Chain(pool, last.x)[m])
    /\ last.x # end => last.res.reach[0] = last.res.reach[1]
    /\ \A m \in (n + 1)..(psize(pool) + 1) : last.res.reach[m].st = "throw"

C15_Witness ==
  /\ last.op = "query"
  /\ \E s \in Stacks : last.x = heads[s]
  /\ Len(Chain(pool, last.x)) = 2
  /\ last.res.reach[2].st = "ok"
  /\ last.res.reach[2].v # last.res.reach[1].v
  /\ last.res.reach[3].st = "throw"

\* C16: ssize(0) = 0, ssize(h) = 1 + ssize(next(h)) for every h in
\* 1..size(), which is the number of nodes from h to 0; ssize(h) fails for
\* h > size(); empty(h) is h = 0.
C16_Ssize ==
  last.op = "query" =>
    /\ last.x = end => last.res.ssize = [st |-> "ok", n |-> 0]
    /\ last.x \in 1..psize(pool) =>
          /\ last.res.ssize.st = "ok"
          /\ ssize(pool, next(pool, last.x)).st = "ok"
          /\ last.res.ssize.n = 1 + ssize(pool, next(pool, last.x)).n
          /\ last.res.ssize.n = Len(Chain(pool, last.x))
    /\ last.x > psize(pool) => last.res.ssize.st = "throw"
    /\ last.res.empty = (last.x = end)

C16_Witness ==
  /\ last.op = "query"
  /\ last.x \in 1..psize(pool)
  /\ last.res.ssize.n = 3
  /\ ~last.res.empty

\* C17: the traversal from begin(head) to end gives the values of the stack
\* in the reverse order of the pushes that built it, on fresh and on
\* recycled slots, whatever the positions of the slots.
C17_TraversalOrder ==
  last.op = "query" =>
    \A s \in Stacks :
      last.x = heads[s] => last.res.print = [st |-> "ok", vals |-> contents[s]]

C17_Witness ==
  /\ last.op = "query"
  /\ \E s \in Stacks :
        /\ last.x = heads[s]
        /\ Len(contents[s]) = 3
        /\ contents[s][1] # contents[s][2]
        /\ last.res.print.vals = contents[s]
        /\ Chain(pool, last.x) # <<3, 2, 1>>

\* C14: a push, pop or free_stack call that fails with an out-of-range error
\* leaves size(), free_nodes and the value and next of every node as they
\* were; free_stack(head) with head > size() fails.
C14_FailureLeavesPool ==
  last.op \in {"push", "pop", "free_stack"} =>
    /\ last.st = "throw" => (pool = last.pool /\ free_nodes = last.free)
    /\ (last.op = "free_stack" /\ last.x > psize(last.pool)) => last.st = "throw"

C14_Witness ==
  /\ last.op = "push"
  /\ last.st = "throw"
  /\ psize(last.pool) >= 2
  /\ last.free # end
  /\ pool = last.pool

C14_WitnessFreeStack ==
  /\ last.op = "free_stack"
  /\ last.st = "throw"
  /\ last.x > psize(last.pool)
  /\ last.free # end
  /\ psize(last.pool) >= 2

\* C20, as claimed: after push, pop and free_stack calls on any handles in
\* 0..size(), every call of push, pop, free_stack, ssize, reach and every
\* traversal returns.
C20_AnyHandlesTerminate == use \in {"heads", "any"} => ~Hung(last)

\* C20: after push, pop and free_stack calls on current heads (pop on a head
\* with a first node), every call of push, pop and free_stack on a current
\* head, and every ssize, reach and traversal from a handle in 0..size(),
\* returns.
C20_HeadCallsTerminate ==
  use = "heads" => (~Hung(last) /\ (last.op # "query" => last.st = "ok"))

C20_Witness ==
  /\ use = "heads"
  /\ last.op = "free_stack"
  /\ last.st = "ok"
  /\ last.x # end
  /\ Len(Chain(last.pool, last.free)) >= 2
  /\ Len(Chain(pool, free_nodes)) = 3

C20_WitnessRead ==
  /\ use = "heads"
  /\ last.op = "query"
  /\ last.res.ssize = [st |-> "ok", n |-> 3]

\* C18: over push, pop, free_stack and reserve calls size() never decreases
\* (pop, free_stack and reserve leave it as it is, push raises it by at most
\* 1), capacity() never decreases, and capacity() >= size() in every state.
C18_SizeCapacity ==
  /\ [](cap >= psize(pool))
  /\ [][/\ psize(pool') \in {psize(pool), psize(pool) + 1}
        /\ cap' >= cap
        /\ ( \/ \E s \in Stacks : CallPop(s)
             \/ \E s \in Stacks : CallFreeStack(s)
             \/ \E n \in 0..MaxCap : Reserve(n) ) => psize(pool') = psize(pool)]_vars

C18_Witness ==
  /\ cap = 3
  /\ psize(pool) = 3
  /\ free_nodes # end
  /\ \E s \in Stacks : heads[s] # end

\* C19: for every head h and value v, after h2 = push(v, h) and pop(h2) the
\* pop has returned h, the chain of h has the handles, links and values it
\* had before the push, size() is what it was right after the push, and
\* the next push, on any head, returns h2.
C19_RoundTrip ==
  [][last'.op = "push_pop" =>
       \A v \in Values :
         PushPop(last'.s, v) =>
         LET h == heads[last'.s]
             c == Chain(pool, h)
             r1 == _push(pool, free_nodes, v, h)
         IN /\ r1.st = "ok"
            /\ heads'[last'.s] = h
            /\ Chain(pool', h) = c
            /\ \A i \in 1..Len(c) : pool'[c[i]] = pool[c[i]]
            /\ psize(pool') = psize(r1.pool)
            /\ free_nodes' = r1.ret
            /\ \A t \in Stacks :
                  LET r3 == _push(pool', free_nodes', v, heads'[t]) IN
                  r3.st = "ok" /\ r3.ret = r1.ret]_vars

C19_Witness ==
  /\ last.op = "push_pop"
  /\ Len(Chain(pool, heads[last.s])) = 2
  /\ value(pool, heads[last.s]) # value(pool, free_nodes)
  /\ Len(Chain(pool, free_nodes)) = 1
  /\ free_nodes = 3

C19_WitnessRecycled ==
  /\ last.op = "push_pop"
  /\ heads[last.s] # end
  /\ Len(Chain(pool, free_nodes)) = 2
  /\ free_nodes < psize(pool)

\* x is the i-th node, neither the first nor the last, of the chain of the
\* head h in the pool p with free list f; the chain ends at 0 and shares no
\* node with the free list.
Interior(p, f, h, i, x) ==
  /\ h # end
  /\ IsHead(p, f, h)
  /\ count(p, h, {}).st = "ok"
  /\ \A k \in 1..Len(Chain(p, h)) : \A j \in 1..Len(Chain(p, f)) :
        Chain(p, h)[k] # Chain(p, f)[j]
  /\ 1 < i
  /\ i < Len(Chain(p, h))
  /\ Chain(p, h)[i] = x

C22_PushRejectsBeyond ==
  last.op = "push" =>
    /\ last.x > psize(last.pool) => last.st = "throw"
    /\ last.st = "ok" => next(pool, last.ret) \in 0..psize(pool)

\* C23: a push, pop or free_stack call on the stack of one caller variable
\* leaves the traversal of every other stack as it was: the same handles
\* in the same order, with the same values, on a push that appends to the
\* pool as on one that recycles a free slot.
C23_OtherStacksKept ==
  last.op \in {"push", "pop", "free_stack"} =>
    \A t \in Stacks \ {last.s} :
      LET c == Chain(last.pool, heads[t]) IN
      /\ heads[t] = end \/ Chain(pool, heads[t]) = c
      /\ \A k \in 1..Len(c) : value(pool, c[k]) = value(last.pool, c[k])

C23_Witness ==
  /\ last.op = "push"
  /\ last.st = "ok"
  /\ last.free # end
  /\ last.ret < psize(pool)
  /\ \E t \in Stacks \ {last.s} :
        /\ Len(Chain(pool, heads[t])) = 2
        /\ heads[t] < last.ret

C23_WitnessFreeStack ==
  /\ last.op = "free_stack"
  /\ last.x # end
  /\ last.free # end
  /\ \E t \in Stacks \ {last.s} : heads[t] # end

C23_WitnessGrow ==
  /\ last.op = "push"
  /\ psize(pool) = psize(last.pool) + 1
  /\ \E t \in Stacks \ {last.s} : Len(Chain(pool, heads[t])) = 2

\* C24: reach(0, m) fails with an out-of-range error for every m, m = 0
\* included, and reads no slot of the pool.
C24_ReachEmptyFails ==
  (last.op = "query" /\ last.x = end) =>
    \A m \in DOMAIN last.res.reach : last.res.reach[m].st = "throw"

====
